---- MODULE Spec2Model ----
(***************************************************************************)
(* The authentication router of the API backend (app/routers/auth.py):    *)
(* the in-memory account store users_db with its id counter current_id,   *)
(* and the handlers register, login, refresh_token, get_current_user_info,*)
(* change_password and logout.  The helpers imported from                 *)
(* app.core.security (password hashing and the token codec) are modelled  *)
(* from the design document, since their source is not part of src/.      *)
(* The item store of app/routers/items.py is modelled next to it, with    *)
(* a specification of its own (SpecItems).                                *)
(***************************************************************************)
EXTENDS Integers, Sequences, FiniteSets, TLC

VARIABLES
    users_db,     \* auth.py:24  dict[str, User], as a function on its keys
    db_keys,      \* auth.py:24  the dict's keys in insertion order
    current_id,   \* auth.py:25  the id counter
    now,          \* the clock the token codec reads
    issued,       \* tokens returned by login / refresh and held by clients
    last,         \* the last request handled and the response it got
    thr,          \* the worker threads running register concurrently
    items_db,     \* items.py:8  dict[int, Item], as a function on its keys
    items_current_id  \* items.py:9  the id counter of the item store

vars == <<users_db, db_keys, current_id, now, issued, last, thr,
          items_db, items_current_id>>

(***************************************************************************)
(* Input domains and bounds                                                *)
(***************************************************************************)
Usernames == {"alice", "bob"}
Emails    == {"alice@x.com", "bob@x.com"}
Passwords == {"password123", "newpass456"}
Salts     == {"s1", "s2"}
TokenTypes == {"access", "refresh"}

MaxTime   == 2
MaxIssued == 2
NThreads  == 2

Threads == 1..NThreads

ACCESS_TTL  == 1
REFRESH_TTL == 2

NoSub == "<None>"

(***************************************************************************)
(* app.core.security: the credential hasher                                *)
(***************************************************************************)
hash_password(password, salt) == [pw |-> password, salt |-> salt]

verify_password(password, hashed) == hashed.pw = password

(***************************************************************************)
(* app.core.security: the token codec                                      *)
(***************************************************************************)
create_token(sub, type, ttl, t) ==
    [sub |-> sub, type |-> type, iat |-> t, exp |-> t + ttl, sig |-> "valid"]

create_access_token(sub, t) == create_token(sub, "access", ACCESS_TTL, t)

create_refresh_token(sub, t) == create_token(sub, "refresh", REFRESH_TTL, t)

\* Why the codec refuses a token ("none" when it does not).
verification_error(token, t) ==
    IF token.sig = "malformed" THEN "Malformed"
    ELSE IF token.sig # "valid" THEN "InvalidSignature"
    ELSE IF t >= token.exp THEN "Expired"
    ELSE "none"

\* The payload None that decode_token returns for a token it rejects.
NonePayload == [none |-> TRUE, sub |-> NoSub, type |-> "none"]

\* Mutant: a token is still decoded at the instant it expires.
decode_token_late(token, t) ==
    IF token.sig # "valid" \/ t > token.exp
    THEN NonePayload
    ELSE [none |-> FALSE, sub |-> token.sub, type |-> token.type]

decode_token(token, t) ==
    IF token.sig # "valid" \/ t >= token.exp
    THEN NonePayload
    ELSE [none |-> FALSE, sub |-> token.sub, type |-> token.type]

(***************************************************************************)
(* Tokens a client can present that login / refresh did not return: an     *)
(* unparseable string, a token with a wrong signature, and tokens signed   *)
(* with the same key outside the current process lifetime of the store     *)
(* (one of them carrying no subject).                                      *)
(***************************************************************************)
Garbage ==
    [sub |-> NoSub, type |-> "none", iat |-> 0, exp |-> 0, sig |-> "malformed"]

BadSignature ==
    [sub |-> "alice", type |-> "access", iat |-> 0, exp |-> MaxTime + 1,
     sig |-> "invalid"]

PriorTokens ==
    { [sub |-> s, type |-> ty, iat |-> 0, exp |-> MaxTime + 1, sig |-> "valid"] :
        s \in {NoSub, "bob"}, ty \in TokenTypes }

ForeignTokens == {Garbage, BadSignature} \cup PriorTokens

Presentable == issued \cup ForeignTokens

(***************************************************************************)
(* Responses                                                               *)
(***************************************************************************)
NoHeaders == "none"
BearerHeader == "WWW-Authenticate: Bearer"

HTTPException(status, detail, headers) ==
    [status |-> status, headers |-> headers, body |-> [detail |-> detail]]

Response(status, body) ==
    [status |-> status, headers |-> NoHeaders, body |-> body]

\* The error kinds of the design, as the responses the handlers raise.
DuplicateUsername == HTTPException(400, "Username already registered", NoHeaders)
DuplicateEmail    == HTTPException(400, "Email already registered", NoHeaders)
InvalidCredentials ==
    HTTPException(401, "Incorrect username or password", BearerHeader)
InactiveAccount   == HTTPException(400, "Inactive user", NoHeaders)
InvalidToken      == HTTPException(401, "Invalid refresh token", NoHeaders)
AccountNotFound   == HTTPException(401, "User not found", NoHeaders)
Unauthenticated ==
    HTTPException(401, "Could not validate credentials", BearerHeader)
IncorrectCurrentPassword ==
    HTTPException(400, "Incorrect current password", NoHeaders)

IsError(resp) == resp.status >= 400

UserResponse(user) ==
    [id |-> user.id, email |-> user.email, username |-> user.username,
     is_active |-> user.is_active]

TokenResponse(access, refresh) ==
    [access_token |-> access, refresh_token |-> refresh, token_type |-> "bearer"]

MessageResponse(message) == [message |-> message]

(***************************************************************************)
(* app/models/user.py                                                      *)
(***************************************************************************)
User(id, email, username, hashed_password) ==
    [id |-> id, email |-> email, username |-> username,
     hashed_password |-> hashed_password, is_active |-> TRUE]

\* Mutant: the account is stored under its email instead of its username.
SetItem_under_email(db, key, user) ==
    [k \in DOMAIN db \cup {user.email} |-> IF k = user.email THEN user ELSE db[k]]

\* users_db[key] = user
SetItem(db, key, user) ==
    [k \in DOMAIN db \cup {key} |-> IF k = key THEN user ELSE db[k]]

SetItemKeys(keys, key) ==
    IF \E i \in 1..Len(keys) : keys[i] = key THEN keys ELSE Append(keys, key)

(***************************************************************************)
(* register (auth.py:93-130), the handler as a function of the store       *)
(***************************************************************************)
\* Mutant: the email check is made before the username check.
register_check_email_first(db, user_data) ==
    IF \E k \in DOMAIN db : db[k].email = user_data.email
    THEN DuplicateEmail
    ELSE IF user_data.username \in DOMAIN db
         THEN DuplicateUsername
         ELSE Response(201, [detail |-> "unique"])

\* Mutant: the scan of the emails is left out.
register_check_username_only(db, user_data) ==
    IF user_data.username \in DOMAIN db
    THEN DuplicateUsername
    ELSE Response(201, [detail |-> "unique"])

\* Lines 103-114: the two uniqueness checks, in the order the code makes them.
register_check(db, user_data) ==
    IF user_data.username \in DOMAIN db
    THEN DuplicateUsername
    ELSE IF \E k \in DOMAIN db : db[k].email = user_data.email
         THEN DuplicateEmail
         ELSE Response(201, [detail |-> "unique"])

\* Mutant: the account is built from the counter before its increment.
register_user_stale_id(cid, user_data, salt) ==
    User(cid, user_data.email, user_data.username,
         hash_password(user_data.password, salt))

\* Lines 116-122: the counter is incremented and the account built from it.
register_user(cid, user_data, salt) ==
    User(cid + 1, user_data.email, user_data.username,
         hash_password(user_data.password, salt))

\* Mutant: the counter is incremented before the uniqueness checks.
register_counts_failures(db, keys, cid, user_data, salt) ==
    LET chk  == register_check(db, user_data)
        user == register_user(cid, user_data, salt)
    IN  IF IsError(chk)
        THEN [users_db |-> db, db_keys |-> keys, current_id |-> cid + 1,
              resp |-> chk]
        ELSE [users_db |-> SetItem(db, user_data.username, user),
              db_keys |-> SetItemKeys(keys, user_data.username),
              current_id |-> cid + 1,
              resp |-> Response(201, UserResponse(user))]

register(db, keys, cid, user_data, salt) ==
    LET chk  == register_check(db, user_data)
        user == register_user(cid, user_data, salt)
    IN  IF IsError(chk)
        THEN [users_db |-> db, db_keys |-> keys, current_id |-> cid, resp |-> chk]
        ELSE [users_db |-> SetItem(db, user_data.username, user),
              db_keys |-> SetItemKeys(keys, user_data.username),
              current_id |-> cid + 1,
              resp |-> Response(201, UserResponse(user))]

(***************************************************************************)
(* login (auth.py:170-198)                                                 *)
(***************************************************************************)
\* Mutant: an unknown username gets an answer of its own.
login_reveals_unknown_user(db, t, form_data) ==
    IF form_data.username \notin DOMAIN db
    THEN HTTPException(404, "User not found", NoHeaders)
    ELSE IF ~verify_password(form_data.password,
                             db[form_data.username].hashed_password)
         THEN InvalidCredentials
         ELSE Response(200,
                  TokenResponse(
                      create_access_token(db[form_data.username].username, t),
                      create_refresh_token(db[form_data.username].username, t)))

\* Mutant: the password is not verified.
login_skips_verify(db, t, form_data) ==
    IF form_data.username \notin DOMAIN db
    THEN InvalidCredentials
    ELSE Response(200,
             TokenResponse(
                 create_access_token(db[form_data.username].username, t),
                 create_refresh_token(db[form_data.username].username, t)))

\* Mutant: the active flag is tested before the credentials.
login_checks_active_first(db, t, form_data) ==
    IF form_data.username \notin DOMAIN db
    THEN InvalidCredentials
    ELSE IF ~db[form_data.username].is_active
         THEN InactiveAccount
         ELSE IF ~verify_password(form_data.password,
                                  db[form_data.username].hashed_password)
              THEN InvalidCredentials
              ELSE Response(200,
                       TokenResponse(
                           create_access_token(db[form_data.username].username, t),
                           create_refresh_token(db[form_data.username].username, t)))

login(db, t, form_data) ==
    IF \/ form_data.username \notin DOMAIN db
       \/ ~verify_password(form_data.password,
                           db[form_data.username].hashed_password)
    THEN InvalidCredentials
    ELSE IF ~db[form_data.username].is_active
         THEN InactiveAccount
         ELSE Response(200,
                  TokenResponse(
                      create_access_token(db[form_data.username].username, t),
                      create_refresh_token(db[form_data.username].username, t)))

(***************************************************************************)
(* refresh_token (auth.py:239-265)                                         *)
(***************************************************************************)
\* Mutant: the subject is not looked up in the store.
refresh_token_skips_lookup(db, t, token_data) ==
    LET payload == decode_token(token_data.refresh_token, t)
    IN  IF payload.none \/ payload.type # "refresh"
        THEN InvalidToken
        ELSE Response(200,
                 TokenResponse(create_access_token(payload.sub, t),
                               create_refresh_token(payload.sub, t)))

refresh_token(db, t, token_data) ==
    LET payload == decode_token(token_data.refresh_token, t)
    IN  IF payload.none \/ payload.type # "refresh"
        THEN InvalidToken
        ELSE IF payload.sub \notin DOMAIN db
             THEN AccountNotFound
             ELSE Response(200,
                      TokenResponse(
                          create_access_token(db[payload.sub].username, t),
                          create_refresh_token(db[payload.sub].username, t)))

(***************************************************************************)
(* get_current_user (auth.py:30-50): the dependency of the protected       *)
(* handlers.  exc tells whether credentials_exception was raised.          *)
(***************************************************************************)
\* Mutant: the type of the token is not checked.
get_current_user_any_type(db, t, token) ==
    LET payload == decode_token(token, t)
    IN  IF payload.none \/ payload.sub = NoSub \/ payload.sub \notin DOMAIN db
        THEN [exc |-> TRUE, username |-> NoSub]
        ELSE [exc |-> FALSE, username |-> payload.sub]

get_current_user(db, t, token) ==
    LET payload == decode_token(token, t)
    IN  IF payload.none \/ payload.type # "access"
        THEN [exc |-> TRUE, username |-> NoSub]
        ELSE IF payload.sub = NoSub
             THEN [exc |-> TRUE, username |-> NoSub]
             ELSE IF payload.sub \notin DOMAIN db
                  THEN [exc |-> TRUE, username |-> NoSub]
                  ELSE [exc |-> FALSE, username |-> payload.sub]

\* Mutant: a subject that is not in the store gets an answer of its own.
get_current_user_info_not_found(db, t, token) ==
    LET payload == decode_token(token, t)
        cu == get_current_user(db, t, token)
    IN  IF ~payload.none /\ payload.type = "access" /\ payload.sub # NoSub
           /\ payload.sub \notin DOMAIN db
        THEN HTTPException(404, "User not found", NoHeaders)
        ELSE IF cu.exc
             THEN Unauthenticated
             ELSE Response(200, UserResponse(db[cu.username]))

\* get_current_user_info (auth.py:298-309)
get_current_user_info(db, t, token) ==
    LET cu == get_current_user(db, t, token)
    IN  IF cu.exc
        THEN Unauthenticated
        ELSE Response(200, UserResponse(db[cu.username]))

(***************************************************************************)
(* change_password (auth.py:345-364)                                       *)
(***************************************************************************)
\* Mutant: the account is taken out of the store instead of updated.
set_hashed_password_drops_user(db, username, hashed) ==
    [k \in DOMAIN db \ {username} |-> db[k]]

\* Mutant: the new hash is computed and not stored.
set_hashed_password_not_stored(db, username, hashed) == db

\* Mutant: the new hash is stored on every account.
set_hashed_password_all(db, username, hashed) ==
    [k \in DOMAIN db |-> [db[k] EXCEPT !.hashed_password = hashed]]

\* Line 363: current_user.hashed_password = hash_password(new_password)
set_hashed_password(db, username, hashed) ==
    [db EXCEPT ![username].hashed_password = hashed]

\* Mutant: the current password is not verified.
change_password_skips_verify(db, t, token, password_data, salt) ==
    LET cu == get_current_user(db, t, token)
    IN  IF cu.exc
        THEN [users_db |-> db, resp |-> Unauthenticated]
        ELSE [users_db |-> set_hashed_password(db, cu.username,
                              hash_password(password_data.new_password, salt)),
              resp |-> Response(200,
                           MessageResponse("Password updated successfully"))]

change_password(db, t, token, password_data, salt) ==
    LET cu == get_current_user(db, t, token)
    IN  IF cu.exc
        THEN [users_db |-> db, resp |-> Unauthenticated]
        ELSE IF ~verify_password(password_data.current_password,
                                 db[cu.username].hashed_password)
             THEN [users_db |-> db, resp |-> IncorrectCurrentPassword]
             ELSE [users_db |-> set_hashed_password(db, cu.username,
                                   hash_password(password_data.new_password, salt)),
                   resp |-> Response(200,
                                MessageResponse("Password updated successfully"))]

(***************************************************************************)
(* logout (auth.py:384-391)                                                *)
(***************************************************************************)
\* Mutant: logout asks for credentials.
logout_requires_token == Unauthenticated

logout == Response(200, MessageResponse("Successfully logged out"))

(***************************************************************************)
(* The state machine: requests handled one at a time                       *)
(***************************************************************************)
\* A worker thread of the pool before it is handed a request: its position
\* in the handler it runs (register or change_password) and the handler's
\* locals.
IdleThread ==
    [pc |-> "idle",
     user_data |-> [email |-> "", username |-> "", password |-> ""],
     it_used |-> 0, it_pos |-> 0, tmp |-> 0,
     user |-> User(0, "", "", hash_password("", "")),
     token |-> Garbage,
     password_data |-> [current_password |-> "", new_password |-> ""],
     current_user |-> NoSub,
     seen |-> hash_password("", ""),
     resp |-> Response(0, [none |-> TRUE])]

NoRequest == [op |-> "none", req |-> [none |-> TRUE], resp |-> Response(0, [none |-> TRUE])]

Init ==
    /\ users_db = [k \in {} |-> {}]
    /\ db_keys = <<>>
    /\ current_id = 0
    /\ now = 0
    /\ issued = {}
    /\ last = NoRequest
    /\ thr = [t \in Threads |-> IdleThread]
    /\ items_db = [k \in {} |-> {}]
    /\ items_current_id = 0

\* What a client may hold after a response: it keeps the pair of tokens the
\* response carries while it has room, and otherwise either keeps what it has
\* or replaces it by the new pair.
Keep(resp) ==
    IF IsError(resp)
    THEN {issued}
    ELSE LET pair == {resp.body.access_token, resp.body.refresh_token}
         IN  IF Cardinality(issued \cup pair) <= MaxIssued
             THEN {issued \cup pair}
             ELSE {issued, pair}

\* hash_password draws a salt only on the paths that reach it.
SaltsFor(hashes) == IF hashes THEN Salts ELSE {CHOOSE s \in Salts : TRUE}

Register ==
    \E u \in Usernames, e \in Emails, p \in Passwords :
      \E s \in SaltsFor(~IsError(register_check(users_db, [email |-> e, username |-> u, password |-> p]))) :
        LET user_data == [email |-> e, username |-> u, password |-> p]
            r == register(users_db, db_keys, current_id, user_data, s)
        IN  /\ users_db' = r.users_db
            /\ db_keys' = r.db_keys
            /\ current_id' = r.current_id
            /\ last' = [op |-> "register", req |-> user_data, resp |-> r.resp]
            /\ UNCHANGED <<now, issued, thr,
                           items_db, items_current_id>>

Login ==
    \E u \in Usernames, p \in Passwords :
        LET form_data == [username |-> u, password |-> p]
            r == login(users_db, now, form_data)
        IN  /\ last' = [op |-> "login", req |-> form_data, resp |-> r]
            /\ issued' \in Keep(r)
            /\ UNCHANGED <<users_db, db_keys, current_id, now, thr,
                           items_db, items_current_id>>

Refresh ==
    \E tok \in Presentable :
        LET token_data == [refresh_token |-> tok]
            r == refresh_token(users_db, now, token_data)
        IN  /\ last' = [op |-> "refresh", req |-> token_data, resp |-> r]
            /\ issued' \in Keep(r)
            /\ UNCHANGED <<users_db, db_keys, current_id, now, thr,
                           items_db, items_current_id>>

GetProfile ==
    \E tok \in Presentable :
        /\ last' = [op |-> "get_profile", req |-> [token |-> tok],
                    resp |-> get_current_user_info(users_db, now, tok)]
        /\ UNCHANGED <<users_db, db_keys, current_id, now, issued, thr,
                       items_db, items_current_id>>

ChangePassword ==
    \E tok \in Presentable, cur \in Passwords, new \in Passwords :
      \E s \in SaltsFor(~IsError(change_password(users_db, now, tok,
                    [current_password |-> cur, new_password |-> new],
                    CHOOSE x \in Salts : TRUE).resp)) :
        LET password_data == [current_password |-> cur, new_password |-> new]
            r == change_password(users_db, now, tok, password_data, s)
        IN  /\ users_db' = r.users_db
            /\ last' = [op |-> "change_password",
                        req |-> [token |-> tok, current_password |-> cur,
                                 new_password |-> new],
                        resp |-> r.resp]
            /\ UNCHANGED <<db_keys, current_id, now, issued, thr,
                           items_db, items_current_id>>

Logout ==
    /\ last' = [op |-> "logout", req |-> [none |-> TRUE], resp |-> logout]
    /\ UNCHANGED <<users_db, db_keys, current_id, now, issued, thr,
                   items_db, items_current_id>>

\* Time passes between requests.
Tick ==
    /\ now < MaxTime
    /\ now' = now + 1
    /\ UNCHANGED <<users_db, db_keys, current_id, issued, last, thr,
                   items_db, items_current_id>>

Next ==
    \/ Register
    \/ Login
    \/ Refresh
    \/ GetProfile
    \/ ChangePassword
    \/ Logout
    \/ Tick

Spec == Init /\ [][Next]_vars

(***************************************************************************)
(* register under the thread pool: sync handlers run on worker threads,    *)
(* and a thread switch can fall between any two of the steps below.        *)
(***************************************************************************)
InternalServerError ==
    HTTPException(500, "Internal Server Error", NoHeaders)

Step(t, upd) == thr' = [thr EXCEPT ![t] = upd]

\* A request arrives and is handed to an idle worker.
RegBegin(t) ==
    /\ thr[t].pc = "idle"
    /\ \E u \in Usernames, e \in Emails, p \in Passwords :
         Step(t, [thr[t] EXCEPT !.pc = "L103",
                    !.user_data = [email |-> e, username |-> u, password |-> p]])
    /\ UNCHANGED <<users_db, db_keys, current_id, now, issued, last,
                   items_db, items_current_id>>

\* Line 103: if user_data.username in users_db
RegCheckUsername(t) ==
    /\ thr[t].pc = "L103"
    /\ IF thr[t].user_data.username \in DOMAIN users_db
       THEN Step(t, [thr[t] EXCEPT !.pc = "done", !.resp = DuplicateUsername])
       ELSE Step(t, [thr[t] EXCEPT !.pc = "L109_iter"])
    /\ UNCHANGED <<users_db, db_keys, current_id, now, issued, last,
                   items_db, items_current_id>>

\* Line 109: the iterator over users_db.values() is created; it remembers the
\* size of the dict.
RegScanIter(t) ==
    /\ thr[t].pc = "L109_iter"
    /\ Step(t, [thr[t] EXCEPT !.pc = "L109_next",
                  !.it_used = Len(db_keys), !.it_pos = 1])
    /\ UNCHANGED <<users_db, db_keys, current_id, now, issued, last,
                   items_db, items_current_id>>

\* Lines 109-114: one round of the loop.  The iterator raises RuntimeError
\* when the dict changed size since it was created (the request then ends
\* with a 500); otherwise it yields the next value, in insertion order, whose
\* email is compared, or it is exhausted.
RegScanNext(t) ==
    /\ thr[t].pc = "L109_next"
    /\ IF thr[t].it_used # Len(db_keys)
       THEN Step(t, [thr[t] EXCEPT !.pc = "done", !.resp = InternalServerError])
       ELSE IF thr[t].it_pos > Len(db_keys)
            THEN Step(t, [thr[t] EXCEPT !.pc = "L116_load"])
            ELSE IF users_db[db_keys[thr[t].it_pos]].email = thr[t].user_data.email
                 THEN Step(t, [thr[t] EXCEPT !.pc = "done", !.resp = DuplicateEmail])
                 ELSE Step(t, [thr[t] EXCEPT !.it_pos = @ + 1])
    /\ UNCHANGED <<users_db, db_keys, current_id, now, issued, last,
                   items_db, items_current_id>>

\* Line 116: current_id += 1 reads the global ...
RegLoadId(t) ==
    /\ thr[t].pc = "L116_load"
    /\ Step(t, [thr[t] EXCEPT !.pc = "L116_store", !.tmp = current_id])
    /\ UNCHANGED <<users_db, db_keys, current_id, now, issued, last,
                   items_db, items_current_id>>

\* ... and writes it back incremented.
RegStoreId(t) ==
    /\ thr[t].pc = "L116_store"
    /\ current_id' = thr[t].tmp + 1
    /\ Step(t, [thr[t] EXCEPT !.pc = "L117"])
    /\ UNCHANGED <<users_db, db_keys, now, issued, last,
                   items_db, items_current_id>>

\* Lines 117-122: User(id=current_id, ...) reads the global again.
RegBuild(t) ==
    /\ thr[t].pc = "L117"
    /\ \E s \in Salts :
         Step(t, [thr[t] EXCEPT !.pc = "L123",
                    !.user = User(current_id, thr[t].user_data.email,
                                  thr[t].user_data.username,
                                  hash_password(thr[t].user_data.password, s))])
    /\ UNCHANGED <<users_db, db_keys, current_id, now, issued, last,
                   items_db, items_current_id>>

\* Line 123: users_db[user_data.username] = user
RegInsert(t) ==
    /\ thr[t].pc = "L123"
    /\ users_db' = SetItem(users_db, thr[t].user_data.username, thr[t].user)
    /\ db_keys' = SetItemKeys(db_keys, thr[t].user_data.username)
    /\ Step(t, [thr[t] EXCEPT !.pc = "L125"])
    /\ UNCHANGED <<current_id, now, issued, last,
                   items_db, items_current_id>>

\* Lines 125-130: the response is returned to the client.
RegReturn(t) ==
    /\ thr[t].pc = "L125"
    /\ Step(t, [thr[t] EXCEPT !.pc = "done",
                  !.resp = Response(201, UserResponse(thr[t].user))])
    /\ UNCHANGED <<users_db, db_keys, current_id, now, issued, last,
                   items_db, items_current_id>>

NextConc ==
    \E t \in Threads :
        \/ RegBegin(t)
        \/ RegCheckUsername(t)
        \/ RegScanIter(t)
        \/ RegScanNext(t)
        \/ RegLoadId(t)
        \/ RegStoreId(t)
        \/ RegBuild(t)
        \/ RegInsert(t)
        \/ RegReturn(t)

SpecConc == Init /\ [][NextConc]_vars

(***************************************************************************)
(* change_password under the thread pool.  The accounts and the tokens are *)
(* set up first, by register and login requests handled one at a time      *)
(* whose responses go to clients that are not observed here;               *)
(* change_password requests then run on the worker threads, a thread       *)
(* switch being possible between the steps below.                          *)
(***************************************************************************)
AllIdle == \A t \in Threads : thr[t].pc = "idle"

\* The new passwords the concurrent requests ask for: two requests can ask
\* for different ones that both differ from the current password.
NewPasswords == Passwords \cup {"another789"}

SetupRegister ==
    /\ AllIdle
    /\ \E u \in Usernames, e \in Emails, p \in Passwords :
      \E s \in SaltsFor(~IsError(register_check(users_db, [email |-> e, username |-> u, password |-> p]))) :
        LET user_data == [email |-> e, username |-> u, password |-> p]
            r == register(users_db, db_keys, current_id, user_data, s)
        IN  /\ users_db' = r.users_db
            /\ db_keys' = r.db_keys
            /\ current_id' = r.current_id
            /\ UNCHANGED <<now, issued, last, thr,
                           items_db, items_current_id>>

SetupLogin ==
    /\ AllIdle
    /\ \E u \in Usernames, p \in Passwords :
        /\ issued' \in Keep(login(users_db, now, [username |-> u, password |-> p]))
        /\ UNCHANGED <<users_db, db_keys, current_id, now, last, thr,
                       items_db, items_current_id>>

\* The request arrives and its dependency get_current_user (lines 345-348)
\* resolves current_user, or refuses the token.
CpBegin(t) ==
    /\ thr[t].pc = "idle"
    /\ \E tok \in Presentable, cur \in Passwords, new \in NewPasswords :
         LET cu == get_current_user(users_db, now, tok)
         IN  IF cu.exc
             THEN Step(t, [thr[t] EXCEPT !.pc = "done", !.token = tok,
                             !.password_data = [current_password |-> cur,
                                                new_password |-> new],
                             !.resp = Unauthenticated])
             ELSE Step(t, [thr[t] EXCEPT !.pc = "L357", !.token = tok,
                             !.password_data = [current_password |-> cur,
                                                new_password |-> new],
                             !.current_user = cu.username])
    /\ UNCHANGED <<users_db, db_keys, current_id, now, issued, last,
                   items_db, items_current_id>>

\* Lines 357-361: the current password is verified against the hash the
\* account holds now.
CpVerify(t) ==
    /\ thr[t].pc = "L357"
    /\ LET hashed == users_db[thr[t].current_user].hashed_password
       IN  IF ~verify_password(thr[t].password_data.current_password, hashed)
           THEN Step(t, [thr[t] EXCEPT !.pc = "done", !.seen = hashed,
                           !.resp = IncorrectCurrentPassword])
           ELSE Step(t, [thr[t] EXCEPT !.pc = "L363", !.seen = hashed])
    /\ UNCHANGED <<users_db, db_keys, current_id, now, issued, last,
                   items_db, items_current_id>>

\* Lines 363-364: the new hash is computed and stored, and the confirmation
\* returned.
CpStore(t) ==
    /\ thr[t].pc = "L363"
    /\ \E s \in Salts :
         users_db' = set_hashed_password(users_db, thr[t].current_user,
                         hash_password(thr[t].password_data.new_password, s))
    /\ Step(t, [thr[t] EXCEPT !.pc = "done",
                  !.resp = Response(200,
                               MessageResponse("Password updated successfully"))])
    /\ UNCHANGED <<db_keys, current_id, now, issued, last,
                   items_db, items_current_id>>

NextConcPw ==
    \/ SetupRegister
    \/ SetupLogin
    \/ \E t \in Threads :
          \/ CpBegin(t)
          \/ CpVerify(t)
          \/ CpStore(t)

SpecConcPw == Init /\ [][NextConcPw]_vars

(***************************************************************************)
(* The item store (app/routers/items.py): items_db keyed by id and its    *)
(* own counter current_id, here items_current_id.                          *)
(***************************************************************************)
MaxItemId == 3

ItemNames == {"Widget", "Gadget"}
ItemPrices == {10, 20}
NoDescription == "<None>"

\* The bodies of POST /items that pass validation (price > 0).
ItemCreates ==
    { [name |-> n, description |-> NoDescription, price |-> p] :
        n \in ItemNames, p \in ItemPrices }

\* Path(gt=0): the ids a request can name, one of them never assigned.
ItemIds == 1..(MaxItemId + 1)

ItemNotFound == HTTPException(404, "Item not found", NoHeaders)

\* Item(id=current_id, **item.model_dump())
Item(id, item) ==
    [id |-> id, name |-> item.name, description |-> item.description,
     price |-> item.price]

\* get_items (items.py:42-49): the values in insertion order, which is the
\* order of the ids.
RECURSIVE ValuesUpTo(_, _)
ValuesUpTo(db, n) ==
    IF n = 0
    THEN <<>>
    ELSE IF n \in DOMAIN db
         THEN Append(ValuesUpTo(db, n - 1), db[n])
         ELSE ValuesUpTo(db, n - 1)

get_items(db, cid) == Response(200, [items |-> ValuesUpTo(db, cid)])

\* get_item (items.py:82-97)
get_item(db, item_id) ==
    IF item_id \notin DOMAIN db
    THEN ItemNotFound
    ELSE Response(200, db[item_id])

\* Mutant: the new id is the number of stored items plus one.
create_item_counts_items(db, cid, item) ==
    LET id == Cardinality(DOMAIN db) + 1
    IN  [items_db |-> SetItem(db, id, Item(id, item)),
         current_id |-> id,
         resp |-> Response(201, Item(id, item))]

\* create_item (items.py:139-151)
create_item(db, cid, item) ==
    LET id == cid + 1
    IN  [items_db |-> SetItem(db, id, Item(id, item)),
         current_id |-> id,
         resp |-> Response(201, Item(id, item))]

\* del items_db[item_id]
DelItem(db, key) == [k \in DOMAIN db \ {key} |-> db[k]]

\* delete_item (items.py:173-188)
delete_item(db, item_id) ==
    IF item_id \notin DOMAIN db
    THEN [items_db |-> db, resp |-> ItemNotFound]
    ELSE [items_db |-> DelItem(db, item_id),
          resp |-> Response(204, [none |-> TRUE])]

AuthUnchanged ==
    UNCHANGED <<users_db, db_keys, current_id, now, issued, thr>>

GetItems ==
    /\ last' = [op |-> "get_items", req |-> [none |-> TRUE],
                resp |-> get_items(items_db, items_current_id)]
    /\ UNCHANGED <<items_db, items_current_id>>
    /\ AuthUnchanged

GetItem ==
    \E item_id \in ItemIds :
        /\ last' = [op |-> "get_item", req |-> [item_id |-> item_id],
                    resp |-> get_item(items_db, item_id)]
        /\ UNCHANGED <<items_db, items_current_id>>
        /\ AuthUnchanged

CreateItem ==
    /\ items_current_id < MaxItemId
    /\ \E item \in ItemCreates :
         LET r == create_item(items_db, items_current_id, item)
         IN  /\ items_db' = r.items_db
             /\ items_current_id' = r.current_id
             /\ last' = [op |-> "create_item", req |-> item, resp |-> r.resp]
             /\ AuthUnchanged

DeleteItem ==
    \E item_id \in ItemIds :
        LET r == delete_item(items_db, item_id)
        IN  /\ items_db' = r.items_db
            /\ last' = [op |-> "delete_item", req |-> [item_id |-> item_id],
                        resp |-> r.resp]
            /\ UNCHANGED items_current_id
            /\ AuthUnchanged

NextItems ==
    \/ GetItems
    \/ GetItem
    \/ CreateItem
    \/ DeleteItem

SpecItems == Init /\ [][NextItems]_vars

(***************************************************************************)
(* Properties                                                              *)
(***************************************************************************)
\* The step handled a request of kind op (Tick leaves last alone, and every
\* handler writes its own op).
Handled(op) == last' # last /\ last'.op = op

EmailTaken(db, email) == \E k \in DOMAIN db : db[k].email = email

StoreUnchanged == UNCHANGED <<users_db, db_keys, current_id>>

\* C1: register with a username that is already a key of users_db is answered
\* DuplicateUsername ("Username already registered") whatever the email, also
\* when that email is registered too: the username check comes first.
C1_DuplicateUsernameFirst ==
    [][ (Handled("register") /\ last'.req.username \in DOMAIN users_db)
            => last'.resp = DuplicateUsername ]_vars

\* C1 witness: a register of a stored username with the email of another
\* stored account was answered DuplicateUsername.
C1_Witness ==
    /\ last.op = "register"
    /\ last.resp = DuplicateUsername
    /\ \E k \in DOMAIN users_db :
          k # last.req.username /\ users_db[k].email = last.req.email

\* C2: register with a username that is not in the store and an email that
\* some stored account has is answered DuplicateEmail ("Email already
\* registered") and creates no account.
C2_DuplicateEmail ==
    [][ (/\ Handled("register")
         /\ last'.req.username \notin DOMAIN users_db
         /\ EmailTaken(users_db, last'.req.email))
            => last'.resp = DuplicateEmail /\ StoreUnchanged ]_vars

\* C2 witness: a register of a new username with a stored email was answered
\* DuplicateEmail and the username is still not in the store.
C2_Witness ==
    /\ last.op = "register"
    /\ last.resp = DuplicateEmail
    /\ last.req.username \notin DOMAIN users_db
    /\ EmailTaken(users_db, last.req.email)

\* C3: in every state reached by handling requests one at a time, no two
\* accounts have the same email, no two have the same username, and every
\* account is stored under its own username.
C3_StoreUnique ==
    /\ \A k \in DOMAIN users_db : users_db[k].username = k
    /\ \A k1, k2 \in DOMAIN users_db :
          k1 # k2 => /\ users_db[k1].email # users_db[k2].email
                     /\ users_db[k1].username # users_db[k2].username

\* C3 witness: two accounts are stored and a register that would have
\* duplicated one of them was refused.
C3_Witness ==
    /\ Cardinality(DOMAIN users_db) = 2
    /\ last.op = "register"
    /\ IsError(last.resp)

\* C4: the uniqueness check and the insert of register are one critical
\* section: of concurrent registers with the same email or the same username
\* at most one returns success, and the account of a register that returned
\* success stays in the store as it was returned.
Succeeded(t) == thr[t].pc = "done" /\ thr[t].resp.status = 201

C4_RegistrationAtomic ==
    /\ \A t1, t2 \in Threads :
          (t1 # t2 /\ Succeeded(t1) /\ Succeeded(t2))
             => /\ thr[t1].user_data.username # thr[t2].user_data.username
                /\ thr[t1].user_data.email # thr[t2].user_data.email
    /\ \A t \in Threads :
          Succeeded(t)
             => /\ thr[t].user_data.username \in DOMAIN users_db
                /\ UserResponse(users_db[thr[t].user_data.username]) = thr[t].resp.body

\* C5: ids come from an increasing counter: the first successful register
\* gets id 1, every later one an id greater than all ids given before, and
\* no step changes the id of a stored account.
C5_IdsIncrease ==
    [][ /\ (Handled("register") /\ ~IsError(last'.resp))
            => /\ \A k \in DOMAIN users_db : last'.resp.body.id > users_db[k].id
               /\ last'.resp.body.id > current_id
               /\ (DOMAIN users_db = {} => last'.resp.body.id = 1)
               /\ users_db'[last'.req.username].id = last'.resp.body.id
        /\ \A k \in DOMAIN users_db :
               k \in DOMAIN users_db' /\ users_db'[k].id = users_db[k].id ]_vars

\* C5 witness: the second successful register was answered with id 2 while
\* the first account keeps id 1.
C5_Witness ==
    /\ last.op = "register"
    /\ ~IsError(last.resp)
    /\ last.resp.body.id = 2
    /\ \E k \in DOMAIN users_db : users_db[k].id = 1

\* C6: login with a username that is not in the store and login with a
\* stored username and a wrong password get the same InvalidCredentials
\* response (status, message, headers).
C6_NoUserEnumeration ==
    \A u1, u2 \in Usernames, p1, p2 \in Passwords :
        (/\ u1 \notin DOMAIN users_db
         /\ u2 \in DOMAIN users_db
         /\ ~verify_password(p2, users_db[u2].hashed_password))
            => /\ login(users_db, now, [username |-> u1, password |-> p1])
                    = login(users_db, now, [username |-> u2, password |-> p2])
               /\ login(users_db, now, [username |-> u1, password |-> p1])
                    = InvalidCredentials

\* C6 witness: a login with a stored username and a wrong password was
\* refused while another username is not in the store.
C6_Witness ==
    /\ last.op = "login"
    /\ last.resp = InvalidCredentials
    /\ last.req.username \in DOMAIN users_db
    /\ ~verify_password(last.req.password,
                        users_db[last.req.username].hashed_password)
    /\ \E u \in Usernames : u \notin DOMAIN users_db

\* C7: login succeeds exactly when the username is in the store, the password
\* verifies against the hash stored now and the account is active; it then
\* returns an access token and a refresh token, both for that username.
C7_LoginExactly ==
    [][ Handled("login")
            => LET u  == last'.req.username
                   ok == /\ u \in DOMAIN users_db
                         /\ verify_password(last'.req.password,
                                            users_db[u].hashed_password)
                         /\ users_db[u].is_active
               IN  /\ ~IsError(last'.resp) <=> ok
                   /\ ok => /\ last'.resp.status = 200
                            /\ last'.resp.body.access_token.type = "access"
                            /\ last'.resp.body.access_token.sub = u
                            /\ last'.resp.body.refresh_token.type = "refresh"
                            /\ last'.resp.body.refresh_token.sub = u ]_vars

\* C7 witness: with two accounts stored, a login with the password stored
\* for its username succeeded.
C7_Witness ==
    /\ last.op = "login"
    /\ last.resp.status = 200
    /\ last.req.password = "newpass456"
    /\ users_db[last.req.username].hashed_password.pw = "newpass456"
    /\ \E u \in DOMAIN users_db : u # last.req.username

\* A token with a good signature that has not expired.
Live(token) == token.sig = "valid" /\ now < token.exp

\* C8 as stated: an access token given to refresh, and a refresh token given
\* to get_profile or change_password, are always answered InvalidToken.
C8_WrongTypeInvalidToken ==
    /\ (last.op = "refresh" /\ last.req.refresh_token.type = "access")
          => last.resp = InvalidToken
    /\ (last.op \in {"get_profile", "change_password"}
          /\ last.req.token.type = "refresh")
          => last.resp = InvalidToken

\* C8 amended: an access token given to refresh is always answered
\* InvalidToken, and a refresh token given to get_profile or change_password
\* is always answered Unauthenticated ("Could not validate credentials"),
\* also when its signature is good and it has not expired.
C8_WrongTypeRejected ==
    /\ (last.op = "refresh" /\ last.req.refresh_token.type = "access")
          => last.resp = InvalidToken
    /\ (last.op \in {"get_profile", "change_password"}
          /\ last.req.token.type = "refresh")
          => last.resp = Unauthenticated

\* C8 witness: a live refresh token of a stored account was given to
\* change_password with the right current password, and was refused.
C8_Witness ==
    /\ last.op = "change_password"
    /\ last.req.token.type = "refresh"
    /\ Live(last.req.token)
    /\ last.req.token.sub \in DOMAIN users_db
    /\ verify_password(last.req.current_password,
                       users_db[last.req.token.sub].hashed_password)
    /\ last.resp = Unauthenticated

\* C9: once refresh has succeeded with a refresh token, that token is
\* invalidated: refresh answers InvalidToken when it is presented again.
C9_OldRefreshInvalidated ==
    (last.op = "refresh" /\ ~IsError(last.resp))
        => refresh_token(users_db, now, last.req) = InvalidToken

AcceptedAccess(db, t, token) == ~get_current_user(db, t, token).exc

AcceptedRefresh(db, t, token) ==
    ~IsError(refresh_token(db, t, [refresh_token |-> token]))

\* What decides that a correctly signed token is accepted where a token of
\* type ty is required: its type, its expiry against the clock, and its
\* subject being a key of the store.
Acceptable(db, t, token, ty) ==
    token.type = ty /\ t < token.exp /\ token.sub \in DOMAIN db

AcceptanceIsStateless(db, t) ==
    \A token \in Presentable :
        token.sig = "valid"
           => /\ AcceptedAccess(db, t, token) <=> Acceptable(db, t, token, "access")
              /\ AcceptedRefresh(db, t, token) <=> Acceptable(db, t, token, "refresh")

C11_RefreshedAccessDiffers ==
    (/\ last.op = "refresh"
     /\ ~IsError(last.resp)
     /\ last.req.refresh_token \in issued)
        => \A a \in issued :
              (/\ a.type = "access"
               /\ a.sub = last.req.refresh_token.sub
               /\ a.iat = last.req.refresh_token.iat)
                  => last.resp.body.access_token # a

TTLOf(type) == IF type = "access" THEN ACCESS_TTL ELSE REFRESH_TTL

VerifiedAt(token, sub, type, expiry) ==
    IF now < expiry
    THEN /\ decode_token(token, now) = [none |-> FALSE, sub |-> sub, type |-> type]
         /\ verification_error(token, now) = "none"
    ELSE /\ decode_token(token, now) = NonePayload
         /\ verification_error(token, now) = "Expired"

\* C12: a token issued at time T for subject s, type ty and lifetime ttl is
\* verified as (s, ty) at every time before T + ttl and refused as Expired at
\* every time from T + ttl on; so are the tokens login and refresh returned.
C12_ExpiryBoundary ==
    /\ \A s \in Usernames, ty \in TokenTypes, ttl \in 0..(MaxTime + 1), T \in 0..now :
          VerifiedAt(create_token(s, ty, ttl, T), s, ty, T + ttl)
    /\ \A token \in issued :
          /\ token.exp = token.iat + TTLOf(token.type)
          /\ VerifiedAt(token, token.sub, token.type, token.iat + TTLOf(token.type))

\* C12 witness: an access token that login or refresh returned was presented
\* at the very instant of its expiry and refused.
C12_Witness ==
    /\ last.op = "get_profile"
    /\ last.req.token \in issued
    /\ last.req.token.type = "access"
    /\ last.req.token.sub \in DOMAIN users_db
    /\ now = last.req.token.iat + ACCESS_TTL
    /\ last.resp = Unauthenticated

LoginOf(db, username, password) ==
    login(db, now, [username |-> username, password |-> password])

ChangedPassword == last.op = "change_password" /\ ~IsError(last.resp)

\* C13 as stated: after a successful change_password(current, new), login
\* with current fails with InvalidCredentials and login with new succeeds,
\* for every pair of passwords the operation accepts.
C13_OldPasswordRejected ==
    ChangedPassword
        => /\ LoginOf(users_db, last.req.token.sub, last.req.current_password)
                = InvalidCredentials
           /\ ~IsError(LoginOf(users_db, last.req.token.sub, last.req.new_password))

\* C13 amended: after a successful change_password(current, new), login with
\* new succeeds, and login with current fails with InvalidCredentials when
\* new differs from current (the operation accepts new = current, and then
\* login with that password still succeeds).
C13_PasswordReplaced ==
    ChangedPassword
        => /\ ~IsError(LoginOf(users_db, last.req.token.sub, last.req.new_password))
           /\ last.req.new_password # last.req.current_password
                => LoginOf(users_db, last.req.token.sub, last.req.current_password)
                      = InvalidCredentials

\* C13 witness: a change_password to a different password has succeeded.
C13_Witness ==
    /\ ChangedPassword
    /\ last.req.new_password # last.req.current_password
    /\ users_db[last.req.token.sub].hashed_password.pw = last.req.new_password

\* C14: change_password with an accepted access token and a current password
\* that does not verify against the stored hash is answered
\* IncorrectCurrentPassword and leaves the store, so the stored hash, as it
\* was: each password logs in after it exactly if it did before.
C14_WrongCurrentPassword ==
    [][ (/\ Handled("change_password")
         /\ AcceptedAccess(users_db, now, last'.req.token)
         /\ ~verify_password(last'.req.current_password,
                             users_db[last'.req.token.sub].hashed_password))
            => /\ last'.resp = IncorrectCurrentPassword
               /\ users_db' = users_db
               /\ \A p \in Passwords :
                     IsError(LoginOf(users_db', last'.req.token.sub, p))
                        <=> IsError(LoginOf(users_db, last'.req.token.sub, p)) ]_vars

\* C14 witness: a change_password with an accepted access token was answered
\* IncorrectCurrentPassword, and the account's password still logs in.
C14_Witness ==
    /\ last.op = "change_password"
    /\ last.resp = IncorrectCurrentPassword
    /\ AcceptedAccess(users_db, now, last.req.token)
    /\ last.req.new_password # users_db[last.req.token.sub].hashed_password.pw
    /\ ~IsError(LoginOf(users_db, last.req.token.sub,
                        users_db[last.req.token.sub].hashed_password.pw))

CpSucceeded(t) ==
    /\ thr[t].pc = "done"
    /\ thr[t].current_user # NoSub
    /\ thr[t].resp.status = 200

\* C15: replacing the password hash does not race with another password
\* change: of two concurrent change_password requests for one account that
\* present the same current password and different new passwords (both other
\* than the current one) at most one succeeds, and a request does not store
\* its hash over a password other than the one it verified.
C15_PasswordChangeAtomic ==
    /\ [](\A t1, t2 \in Threads :
            (/\ t1 # t2
             /\ thr[t1].current_user = thr[t2].current_user
             /\ thr[t1].password_data.current_password
                    = thr[t2].password_data.current_password
             /\ thr[t1].password_data.new_password
                    # thr[t2].password_data.new_password
             /\ thr[t1].password_data.new_password
                    # thr[t1].password_data.current_password
             /\ thr[t2].password_data.new_password
                    # thr[t2].password_data.current_password)
                => ~(CpSucceeded(t1) /\ CpSucceeded(t2)))
    /\ [][ \A t \in Threads :
              (thr[t].pc = "L363" /\ thr'[t].pc = "done")
                 => users_db[thr[t].current_user].hashed_password.pw
                       = thr[t].seen.pw ]_vars

\* C16: get_profile answers 200 exactly when the presented token is correctly
\* signed, unexpired, of type access and its subject is a username of the
\* store; the body is then that account's id, email, username and is_active.
\* Every other token is answered with the one Unauthenticated error.
C16_ProfileExactly ==
    [][ Handled("get_profile") =>
          LET token == last'.req.token
              ok == /\ token.sig = "valid"
                    /\ now < token.exp
                    /\ token.type = "access"
                    /\ token.sub # NoSub
                    /\ token.sub \in DOMAIN users_db
          IN  IF ok
              THEN /\ last'.resp.status = 200
                   /\ last'.resp.body =
                        [id |-> users_db[token.sub].id,
                         email |-> users_db[token.sub].email,
                         username |-> users_db[token.sub].username,
                         is_active |-> users_db[token.sub].is_active]
              ELSE last'.resp = Unauthenticated ]_vars

C16_Witness ==
    /\ last.op = "get_profile"
    /\ last.resp.status = 200
    /\ last.req.token \in issued
    /\ last.resp.body.username = "alice"
    /\ Cardinality(DOMAIN users_db) = 2

\* C17: under concurrent register requests every two accounts of the store
\* have distinct ids.
C17_ConcurrentIdsDistinct ==
    \A k1, k2 \in DOMAIN users_db :
        k1 # k2 => users_db[k1].id # users_db[k2].id

\* C18: a successful change_password changes nothing but the password hash of
\* the account named by the token's subject: its other fields, the other
\* accounts, the usernames of the store and the id counter stay as they were.
C18_OnlyHashChanges ==
    [][ (/\ last'.op = "change_password"
         /\ ~IsError(last'.resp)
         /\ (last' # last \/ users_db' # users_db))
           => LET sub == last'.req.token.sub
              IN  /\ sub \in DOMAIN users_db
                  /\ DOMAIN users_db' = DOMAIN users_db
                  /\ db_keys' = db_keys
                  /\ current_id' = current_id
                  /\ \A k \in DOMAIN users_db \ {sub} :
                        users_db'[k] = users_db[k]
                  /\ users_db'[sub].id = users_db[sub].id
                  /\ users_db'[sub].email = users_db[sub].email
                  /\ users_db'[sub].username = users_db[sub].username
                  /\ users_db'[sub].is_active = users_db[sub].is_active ]_vars

C18_Witness ==
    /\ ChangedPassword
    /\ Cardinality(DOMAIN users_db) = 2
    /\ \E k \in DOMAIN users_db :
         /\ k # last.req.token.sub
         /\ users_db[k].hashed_password
               # users_db[last.req.token.sub].hashed_password

\* C19: a register call that fails leaves users_db and current_id unchanged,
\* so the ids of the accounts are exactly 1..n and the counter is n, for the
\* n accounts of the store.
IdsExact ==
    /\ {users_db[k].id : k \in DOMAIN users_db}
          = 1..Cardinality(DOMAIN users_db)
    /\ current_id = Cardinality(DOMAIN users_db)

C19_FailedRegisterConsumesNoId ==
    /\ []IdsExact
    /\ [][ (last'.op = "register" /\ IsError(last'.resp)
              /\ (last' # last \/ current_id' # current_id))
             => StoreUnchanged ]_vars

C19_Witness ==
    /\ last.op = "register"
    /\ IsError(last.resp)
    /\ Cardinality(DOMAIN users_db) = 2
    /\ current_id = 2

\* C20: login, refresh, get_profile and logout leave users_db and current_id
\* unchanged whether they succeed or fail, and logout answers 200 in every
\* state, with no token asked for.
C20_ReadOnlyHandlers ==
    /\ [](ENABLED Logout)
    /\ [][ /\ (Handled("login") \/ Handled("refresh")
               \/ Handled("get_profile") \/ Handled("logout"))
                 => StoreUnchanged
           /\ Handled("logout") =>
                 last'.resp = Response(200,
                                 MessageResponse("Successfully logged out")) ]_vars

C20_Witness ==
    /\ last.op = "logout"
    /\ last.resp.status = 200
    /\ users_db # <<>>
    /\ issued = {}

\* C21: no operation sets is_active to false: every account of every
\* reachable state is active and no login is answered InactiveAccount.  Were
\* an account inactive, login would test the credentials first: a wrong
\* password is answered InvalidCredentials, a correct one InactiveAccount.
Deactivated(db, username) == [db EXCEPT ![username].is_active = FALSE]

C21_AlwaysActive ==
    /\ \A k \in DOMAIN users_db : users_db[k].is_active
    /\ last.resp # InactiveAccount
    /\ \A u \in Usernames, p \in Passwords :
          LoginOf(users_db, u, p) # InactiveAccount
    /\ \A k \in DOMAIN users_db, p \in Passwords :
          LoginOf(Deactivated(users_db, k), k, p)
             = IF p = users_db[k].hashed_password.pw
               THEN InactiveAccount
               ELSE InvalidCredentials

C21_Witness ==
    /\ last.op = "login"
    /\ ~IsError(last.resp)
    /\ Cardinality(DOMAIN users_db) = 2
    /\ LoginOf(Deactivated(users_db, last.req.username),
               last.req.username, last.req.password) = InactiveAccount
    /\ \E p \in Passwords :
          LoginOf(Deactivated(users_db, last.req.username),
                  last.req.username, p) = InvalidCredentials

\* C22: a token issued by login or refresh names a subject that is a key of
\* users_db when it is issued and ever after, since no step removes a key or
\* changes a username: refresh of an issued token is never answered
\* AccountNotFound, and get_profile with an issued, unexpired access token
\* succeeds.
TokensOf(resp) ==
    IF IsError(resp)
    THEN {}
    ELSE {resp.body.access_token, resp.body.refresh_token}

C22_IssuedSubjectsStay ==
    /\ [](\A token \in issued :
            /\ token.sub \in DOMAIN users_db
            /\ users_db[token.sub].username = token.sub)
    /\ [][ /\ \A k \in DOMAIN users_db :
                 k \in DOMAIN users_db' /\ users_db'[k].username = k
           /\ (Handled("login") \/ Handled("refresh"))
                 => \A token \in TokensOf(last'.resp) :
                       token.sub \in DOMAIN users_db
           /\ (Handled("refresh") /\ last'.req.refresh_token \in issued)
                 => last'.resp # AccountNotFound
           /\ (/\ Handled("get_profile")
               /\ last'.req.token \in issued
               /\ last'.req.token.type = "access"
               /\ now < last'.req.token.exp)
                 => last'.resp.status = 200 ]_vars

C22_Witness ==
    /\ last.op = "refresh"
    /\ ~IsError(last.resp)
    /\ last.req.refresh_token \in issued
    /\ last.req.refresh_token.iat < now
    /\ Cardinality(DOMAIN users_db) = 2

\* C23: create_item assigns an id greater than every id assigned before, so
\* the id of a deleted item is never assigned again; once delete_item(id)
\* has succeeded, get_item(id) and delete_item(id) are answered 'Item not
\* found' and leave the item store as it is.
ItemsUnchanged == UNCHANGED <<items_db, items_current_id>>

C23_ItemIdsNeverReused ==
    /\ [](\A id \in DOMAIN items_db :
            id <= items_current_id /\ items_db[id].id = id)
    /\ [](\A id \in 1..items_current_id :
            id \notin DOMAIN items_db =>
               /\ get_item(items_db, id) = ItemNotFound
               /\ delete_item(items_db, id)
                     = [items_db |-> items_db, resp |-> ItemNotFound])
    /\ [][ /\ items_current_id' >= items_current_id
           /\ Handled("create_item") =>
                 /\ last'.resp.body.id > items_current_id
                 /\ last'.resp.body.id = items_current_id'
                 /\ \A id \in DOMAIN items_db : last'.resp.body.id > id
                 /\ DOMAIN items_db' = DOMAIN items_db \cup {last'.resp.body.id}
                 /\ items_db'[last'.resp.body.id] = last'.resp.body
                 /\ \A id \in DOMAIN items_db : items_db'[id] = items_db[id]
           /\ (Handled("delete_item") /\ last'.resp.status = 204) =>
                 /\ last'.req.item_id \in DOMAIN items_db
                 /\ last'.req.item_id \notin DOMAIN items_db'
                 /\ get_item(items_db', last'.req.item_id) = ItemNotFound
                 /\ delete_item(items_db', last'.req.item_id)
                       = [items_db |-> items_db', resp |-> ItemNotFound]
           /\ ((Handled("get_item") \/ Handled("delete_item"))
                  /\ last'.req.item_id \notin DOMAIN items_db) =>
                 /\ last'.resp = ItemNotFound
                 /\ ItemsUnchanged ]_vars

C23_Witness ==
    /\ last.op = "delete_item"
    /\ last.resp = ItemNotFound
    /\ last.req.item_id < items_current_id
    /\ items_current_id \in DOMAIN items_db
    /\ Cardinality(DOMAIN items_db) = 1

====
